---------------------------- MODULE Spec2Model ----------------------------
(***************************************************************************)
(* Model of easydict_gtk's dictionary store, SQLiteBackend                 *)
(* (src/easydict_gtk/backends/sqlite_backend.py).                          *)
(*                                                                         *)
(* A text value (a Python str or a column value) is a sequence of          *)
(* one-character strings.  A database is the sequence of its tables in     *)
(* creation order (the order of sqlite_master), each a record              *)
(* [name, rows]; a row is a 5-tuple of text values.  A byte string is a    *)
(* sequence of tokens.                                                     *)
(*                                                                         *)
(* The test-suite runs every scenario once on an uncompressed file         *)
(* (test.db) and once on an LZMA-compressed file (test.db.lzma); the model *)
(* keeps both stores side by side, indexed by Flavours, and every          *)
(* operation is applied to both with the same arguments.                   *)
(***************************************************************************)
EXTENDS Integers, Sequences, FiniteSets, TLC

(***************************************************************************)
(* Bounds of the model.                                                    *)
(***************************************************************************)
\* longest search word drawn over Alphabet
MaxWordLen == 2
\* most rows the table may hold before fill_db is no longer taken
MaxRows == 4
\* most fill_db calls used to build a table content for the search runs
MaxFills == 2
\* most suffixes of the path a store is constructed on
MaxSuffixes == 2

(***************************************************************************)
(* Text helpers: what Python's str methods and SQLite's text comparison    *)
(* do on the characters the model uses.                                    *)
(***************************************************************************)
TAB == "\t"
NL  == "\n"

Letters == {"a", "c", "d", "e", "g", "h", "i", "l", "m", "n", "o", "p", "r",
            "s", "t", "u", "z", "E", "N"}

\* ASCII case folding, as SQLite's LIKE and re.IGNORECASE apply it
Lower(c) == CASE c = "E" -> "e" [] c = "N" -> "n" [] OTHER -> c

\* the characters the regular-expression class \w holds
IsWordChar(c) == c \in Letters \/ c = "_"

RECURSIVE JoinWith(_, _)
\* sep.join(fields)
JoinWith(sep, fields) ==
    IF fields = <<>> THEN <<>>
    ELSE IF Len(fields) = 1 THEN fields[1]
    ELSE fields[1] \o <<sep>> \o JoinWith(sep, Tail(fields))

RECURSIVE SplitOn(_, _)
\* str.split(sep): one more field than there are separators
SplitOn(sep, s) ==
    IF \A i \in 1..Len(s) : s[i] # sep THEN <<s>>
    ELSE LET k == CHOOSE i \in 1..Len(s) :
                      s[i] = sep /\ \A j \in 1..(i-1) : s[j] # sep
         IN  <<SubSeq(s, 1, k-1)>> \o SplitOn(sep, SubSeq(s, k+1, Len(s)))

RECURSIVE FileLines(_)
\* iterating a text file: each line keeps its newline, the last line may
\* have none, an empty file has no line
FileLines(s) ==
    IF s = <<>> THEN <<>>
    ELSE IF \A i \in 1..Len(s) : s[i] # NL THEN <<s>>
    ELSE LET k == CHOOSE i \in 1..Len(s) :
                      s[i] = NL /\ \A j \in 1..(i-1) : s[j] # NL
         IN  <<SubSeq(s, 1, k)>> \o FileLines(SubSeq(s, k+1, Len(s)))

\* str.replace("\n", "")
StripNewlines(s) == SelectSeq(s, LAMBDA c : c # NL)


(***************************************************************************)
(* SQLite's LIKE operator with its default settings: % matches any run of  *)
(* characters, _ matches any one character, every other character matches  *)
(* itself without regard to ASCII case.                                    *)
(***************************************************************************)
RECURSIVE Like(_, _)
Like(pat, s) ==
    IF pat = <<>> THEN s = <<>>
    ELSE IF Head(pat) = "%"
         THEN \E k \in 0..Len(s) : Like(Tail(pat), SubSeq(s, k+1, Len(s)))
    ELSE IF s = <<>> THEN FALSE
    ELSE /\ (Head(pat) = "_" \/ Lower(Head(pat)) = Lower(Head(s)))
         /\ Like(Tail(pat), Tail(s))

(***************************************************************************)
(* Python's re, as far as the patterns \b<word>\b over the model's         *)
(* characters need it.  ReCompile turns the pattern text into tokens:      *)
(* \b a word boundary, . any character but a newline, ( opens a group      *)
(* (never closed with the model's characters, which makes re.compile       *)
(* raise), every other character a literal.                                *)
(***************************************************************************)
BSL == "\\"

ReError == <<[kind |-> "error", c |-> ""]>>

RECURSIVE ReCompile(_)
ReCompile(expr) ==
    IF expr = <<>> THEN <<>>
    ELSE IF Head(expr) = "(" THEN ReError
    ELSE LET two  == Len(expr) >= 2 /\ expr[1] = BSL /\ expr[2] = "b"
             tok  == IF two THEN [kind |-> "boundary", c |-> ""]
                     ELSE IF Head(expr) = "." THEN [kind |-> "any", c |-> ""]
                     ELSE [kind |-> "lit", c |-> Head(expr)]
             rest == ReCompile(IF two THEN Tail(Tail(expr)) ELSE Tail(expr))
         IN  IF rest = ReError THEN ReError ELSE <<tok>> \o rest

\* \b at position pos (between s[pos-1] and s[pos]): exactly one side is \w
AtBoundary(s, pos) ==
    (pos > 1 /\ IsWordChar(s[pos-1])) # (pos <= Len(s) /\ IsWordChar(s[pos]))

RECURSIVE ReMatchAt(_, _, _)
\* the tokens match s from position pos on (re.IGNORECASE)
ReMatchAt(toks, s, pos) ==
    IF toks = <<>> THEN TRUE
    ELSE LET t == Head(toks) IN
         IF t.kind = "boundary"
         THEN AtBoundary(s, pos) /\ ReMatchAt(Tail(toks), s, pos)
         ELSE /\ pos <= Len(s)
              /\ IF t.kind = "any" THEN s[pos] # NL
                 ELSE Lower(s[pos]) = Lower(t.c)
              /\ ReMatchAt(Tail(toks), s, pos + 1)

\* reg.match(item) in place of reg.search(item): a match at the start only
ReMatchAtStart(toks, item) == ReMatchAt(toks, item, 1)

\* reg.search(item) is not None
ReSearchIgnoreCase(toks, item) ==
    \E pos \in 1..(Len(item) + 1) : ReMatchAt(toks, item, pos)

\* SQLiteBackend.regexp raises when re.compile raises
regexp_raises(expr) == ReCompile(expr) = ReError

\* SQLiteBackend.regexp(expr, item), when it does not raise
regexp(expr, item) == ReSearchIgnoreCase(ReCompile(expr), item)

(***************************************************************************)
(* The relational engine: tables, statements, images.                      *)
(***************************************************************************)
NoErr == "none"

\* the columns prepare_db declares, in order
Columns == <<"eng", "cze", "notes", "special", "author">>

\* position of a column name, 0 when the table has no such column
ColumnOf(lang) ==
    IF \E i \in 1..Len(Columns) : Columns[i] = lang
    THEN CHOOSE i \in 1..Len(Columns) : Columns[i] = lang
    ELSE 0

HasTable(db, name) == \E i \in 1..Len(db) : db[i].name = name

TableIndex(db, name) == CHOOSE i \in 1..Len(db) : db[i].name = name

TableRows(db, name) == db[TableIndex(db, name)].rows

\* CREATE TABLE without "if not exists", were it to add the table again
CreateTableAgain(db, name) == Append(db, [name |-> name, rows |-> <<>>])

\* CREATE TABLE if not exists <name> (...)
CreateTableIfNotExists(db, name) ==
    IF HasTable(db, name) THEN db
    ELSE Append(db, [name |-> name, rows |-> <<>>])

RECURSIVE AppendNew(_, _)
\* rows, then the tuples of data that are not among them yet
AppendNew(rows, data) ==
    IF data = <<>> THEN rows
    ELSE IF \E i \in 1..Len(rows) : rows[i] = Head(data)
         THEN AppendNew(rows, Tail(data))
         ELSE AppendNew(Append(rows, Head(data)), Tail(data))

\* an insert that skips a tuple the table already holds
InsertManyDistinct(db, name, data) ==
    [db EXCEPT ![TableIndex(db, name)].rows = AppendNew(@, data)]

\* INSERT INTO <name> VALUES (?,?,?,?,?) for each tuple of data, in order
InsertMany(db, name, data) ==
    [db EXCEPT ![TableIndex(db, name)].rows = @ \o data]

\* sqlite3 serialize / deserialize and the backup API: the image of a
\* database that has tables is a header followed by one page per table, in
\* sqlite_master order.  A byte string is a sequence of tokens
\* [tag, name, rows].
Token(tag) == [tag |-> tag, name |-> "", rows |-> <<>>]

SQLITE_MAGIC == Token("SQLite format 3")

Serialize(db) ==
    <<SQLITE_MAGIC>> \o
    [i \in 1..Len(db) |->
        [tag |-> "table", name |-> db[i].name, rows |-> db[i].rows]]

Deserialize(bytes) ==
    [i \in 1..(Len(bytes) - 1) |->
        [name |-> bytes[i+1].name, rows |-> bytes[i+1].rows]]

\* lzma.compress / lzma.decompress: a stream is framed by a header and an
\* end-of-stream marker; anything else makes decompress raise LZMAError
XZ_HEADER == Token("xz-header")
XZ_FOOTER == Token("xz-end-of-stream")

LzmaCompress(bytes) == <<XZ_HEADER>> \o bytes \o <<XZ_FOOTER>>

IsLzmaStream(bytes) ==
    Len(bytes) >= 2 /\ bytes[1] = XZ_HEADER /\ bytes[Len(bytes)] = XZ_FOOTER

LzmaDecompress(bytes) == SubSeq(bytes, 2, Len(bytes) - 1)

(***************************************************************************)
(* The store.  A store record holds the attributes __init__ sets          *)
(* (memory_only, table_name, lzma_compressed), the state of self.conn      *)
(* (status "constructed": db_init has not run, "open", "closed") and the   *)
(* content of the in-memory database behind self.conn (after close_db:     *)
(* what it held when it was released; nothing reads it then).  Every       *)
(* method is                                                               *)
(* an operator from the store and the content of its backing file to an    *)
(* outcome [store, file, err, results, queried]: the store and the file    *)
(* afterwards, the exception raised (NoErr for none), the rows yielded     *)
(* and whether a statement reached the engine.                             *)
(***************************************************************************)
Flavours == {"db", "lzma"}

\* table_name's default value
DefaultTable == "eng_cze"

\* SQLiteBackend(file, memory_only=...) on an existing file whose suffixes
\* are [".db"] or [".db", ".lzma"]
Construct(flavour, memory_only) ==
    [memory_only     |-> memory_only,
     table_name      |-> DefaultTable,
     lzma_compressed |-> (flavour = "lzma"),
     status          |-> "constructed",
     conn            |-> <<>>]

(***************************************************************************)
(* The constructor.  A path is what __init__ looks at: its suffixes, as    *)
(* pathlib's Path.suffixes lists them, and whether it exists.  The         *)
(* constructor's record says what it raised and which calls it made on     *)
(* the path before it returned or raised.                                  *)
(***************************************************************************)
SuffixNames == {".db", ".lzma", ".txt"}

RECURSIVE SuffixListsUpTo(_)
SuffixListsUpTo(n) ==
    IF n = 0 THEN {<<>>}
    ELSE LET shorter == SuffixListsUpTo(n - 1)
         IN  shorter \cup {<<x>> \o t : x \in SuffixNames, t \in shorter}

Paths == [suffixes : SuffixListsUpTo(MaxSuffixes), exists : BOOLEAN]

\* the attributes __init__ has set when it does not return
NoStore(memory_only) ==
    [memory_only     |-> memory_only,
     table_name      |-> DefaultTable,
     lzma_compressed |-> FALSE,
     status          |-> "none",
     conn            |-> <<>>]

\* __init__ with the suffix check ahead of the existence check
SQLiteBackend_suffixes_first(path, memory_only) ==
    IF path.suffixes # <<".db", ".lzma">> /\ path.suffixes # <<".db">>
    THEN [err |-> "MimeTypeMismatch", io |-> <<>>,
          store |-> NoStore(memory_only)]
    ELSE IF ~path.exists
    THEN [err |-> "SystemExit", io |-> <<"exists">>,
          store |-> NoStore(memory_only)]
    ELSE [err |-> NoErr, io |-> <<"exists">>,
          store |-> Construct(IF path.suffixes = <<".db", ".lzma">>
                              THEN "lzma" ELSE "db", memory_only)]

\* SQLiteBackend(file, memory_only=...): file.exists() first (print and
\* exit() when it is false), then the suffixes
SQLiteBackend(path, memory_only) ==
    IF ~path.exists
    THEN [err |-> "SystemExit", io |-> <<"exists">>,
          store |-> NoStore(memory_only)]
    ELSE IF path.suffixes # <<".db", ".lzma">> /\ path.suffixes # <<".db">>
    THEN [err |-> "MimeTypeMismatch", io |-> <<"exists">>,
          store |-> NoStore(memory_only)]
    ELSE [err |-> NoErr, io |-> <<"exists">>,
          store |-> Construct(IF path.suffixes = <<".db", ".lzma">>
                              THEN "lzma" ELSE "db", memory_only)]

Outcome(store, file, err, results, queried) ==
    [store |-> store, file |-> file, err |-> err, results |-> results,
     queried |-> queried]

\* what using self.conn raises when there is no open connection
ConnError(store) ==
    IF store.status = "constructed" THEN "AttributeError"
    ELSE "ValueError: no active connection"

\* a flush whatever memory_only says
FlushAlways(store) == TRUE

\* no flush whatever memory_only says
FlushNever(store) == FALSE

\* whether a mutator goes on to write_to_file
FlushWanted(store) == ~store.memory_only

\* write_to_file without the lzma.compress of its first branch
write_to_file_plain(store) == Serialize(store.conn)

\* the bytes write_to_file leaves in the backing file
write_to_file(store) ==
    IF store.lzma_compressed
    THEN LzmaCompress(Serialize(store.conn))
    ELSE Serialize(store.conn)

\* connector() without the lzma.decompress
ReadImagePlain(store, file) == file

\* the bytes connector() hands to deserialize
ReadImage(store, file) ==
    IF store.lzma_compressed THEN LzmaDecompress(file) ELSE file

\* the backing file is a zero-length file or holds an image (compressed
\* for the .db.lzma store)
db_init(store, file) ==
    IF store.lzma_compressed /\ ~IsLzmaStream(file)
    THEN Outcome(store, file, "LZMAError", <<>>, FALSE)
    ELSE LET bytes == ReadImage(store, file) IN
         Outcome([store EXCEPT
                    !.status = "open",
                    !.conn = IF bytes # <<>> THEN Deserialize(bytes)
                             ELSE <<>>],
                 file, NoErr, <<>>, FALSE)

prepare_db(store, file) ==
    IF store.status # "open"
    THEN Outcome(store, file, ConnError(store), <<>>, FALSE)
    ELSE LET after == [store EXCEPT
                         !.conn = CreateTableIfNotExists(@, store.table_name)]
         IN  Outcome(after,
                     IF FlushWanted(after) THEN write_to_file(after) ELSE file,
                     NoErr, <<>>, TRUE)

(***************************************************************************)
(* Raw files for fill_db.  A raw file is a text; RawText gives the text    *)
(* of each path the model uses, RawExisting the paths that exist.          *)
(***************************************************************************)
Txt_test_eng == <<"t", "e", "s", "t", "_", "e", "n", "g">>
Txt_test_cze == <<"t", "e", "s", "t", "_", "c", "z", "e">>
Txt_eng      == <<"e", "n", "g">>
Txt_cze      == <<"c", "z", "e">>
Txt_english  == <<"e", "n", "g", "l", "i", "s", "h">>
Txt_czech    == <<"c", "z", "e", "c", "h">>
Txt_note     == <<"n", "o", "t", "e">>
Txt_special  == <<"s", "p", "e", "c", "i", "a", "l">>
Txt_author   == <<"a", "u", "t", "h", "o", "r">>
Txt_test     == <<"t", "e", "s", "t">>
Txt_ehm      == <<"e", "h", "m">>

\* the test-suite's dummy_data: three lines, no newline after the last
DummyData ==
    JoinWith(NL,
      << JoinWith(TAB, <<Txt_test_eng, Txt_test_cze, Txt_note, Txt_special,
                         Txt_author>>),
         JoinWith(TAB, <<Txt_eng, Txt_cze, Txt_note, Txt_special,
                         Txt_author>>),
         JoinWith(TAB, <<Txt_english, Txt_czech, Txt_note \o <<"s">>,
                         Txt_special \o <<"s">>, Txt_author \o <<"s">> >>) >>)

\* two lines over the characters the search words are drawn from; the
\* second has a sixth field, both end in a newline
EdgeData ==
    JoinWith(TAB, << <<"E", "n">>, <<"e", " ", "n">>, <<>>, <<"%">>,
                     <<"a">> >>) \o <<NL>> \o
    JoinWith(TAB, << <<"n", "_", "e">>, <<"%", "e">>, <<"n">>, <<>>,
                     <<>>, <<"e">> >>) \o <<NL>>

\* a line of four fields after a well-formed line
ShortData ==
    JoinWith(TAB, << <<"e">>, <<"n">>, <<>>, <<>>, <<"a">> >>) \o <<NL>> \o
    JoinWith(TAB, << <<"e">>, <<"n">>, <<>>, <<"a">> >>) \o <<NL>>

RawFiles == {"raw_file.txt", "edge.txt", "empty.txt", "short.txt",
             "missing.txt"}

RawExisting == RawFiles \ {"missing.txt"}

RawText(raw) ==
    CASE raw = "raw_file.txt" -> DummyData
      [] raw = "edge.txt"     -> EdgeData
      [] raw = "short.txt"    -> ShortData
      [] OTHER                -> <<>>

\* the list of line_list values fill_db's loop sees, for each raw file
RawFieldsOf ==
    [raw \in RawFiles |->
        LET lines == FileLines(RawText(raw))
        IN  [i \in 1..Len(lines) |-> SplitOn(TAB, lines[i])]]

RawFields(raw) == RawFieldsOf[raw]

\* the tuple fill_db appends for one line_list
DataTuple(line_list) ==
    <<line_list[1], line_list[2], line_list[3], line_list[4],
      StripNewlines(line_list[5])>>

\* fill_db that takes a raw file that does not exist for one without lines
fill_db_missing_as_empty(store, file, raw) ==
    LET fields == IF raw \in RawExisting THEN RawFields(raw) ELSE <<>> IN
    IF \E i \in 1..Len(fields) : Len(fields[i]) < 5
    THEN Outcome(store, file, "IndexError", <<>>, FALSE)
    ELSE LET data == [i \in 1..Len(fields) |-> DataTuple(fields[i])] IN
    IF store.status # "open"
    THEN Outcome(store, file, ConnError(store), <<>>, FALSE)
    ELSE IF ~HasTable(store.conn, store.table_name)
    THEN Outcome(store, file, "OperationalError", <<>>, TRUE)
    ELSE LET after == [store EXCEPT
                         !.conn = InsertMany(@, store.table_name, data)]
         IN  Outcome(after,
                     IF FlushWanted(after) THEN write_to_file(after) ELSE file,
                     NoErr, <<>>, TRUE)

\* the lines of fields before the first with fewer than five fields
RECURSIVE ValidPrefix(_)
ValidPrefix(fields) ==
    IF fields = <<>> \/ Len(Head(fields)) < 5 THEN <<>>
    ELSE <<Head(fields)>> \o ValidPrefix(Tail(fields))

\* fill_db that inserts each line as its loop reads it
fill_db_line_by_line(store, file, raw) ==
    IF raw \notin RawExisting
    THEN Outcome(store, file, "FileNotFoundError", <<>>, FALSE)
    ELSE LET fields == RawFields(raw)
             valid  == ValidPrefix(fields)
             data   == [i \in 1..Len(valid) |-> DataTuple(valid[i])]
             bad    == Len(valid) < Len(fields) IN
    IF store.status # "open"
    THEN Outcome(store, file,
                 IF data = <<>> /\ bad THEN "IndexError" ELSE ConnError(store),
                 <<>>, FALSE)
    ELSE IF ~HasTable(store.conn, store.table_name)
    THEN Outcome(store, file,
                 IF data = <<>> /\ bad THEN "IndexError" ELSE "OperationalError",
                 <<>>, data # <<>>)
    ELSE LET after == [store EXCEPT
                         !.conn = InsertMany(@, store.table_name, data)]
         IN  IF bad THEN Outcome(after, file, "IndexError", <<>>, data # <<>>)
             ELSE Outcome(after,
                     IF FlushWanted(after) THEN write_to_file(after) ELSE file,
                     NoErr, <<>>, TRUE)

fill_db(store, file, raw) ==
    IF raw \notin RawExisting
    THEN Outcome(store, file, "FileNotFoundError", <<>>, FALSE)
    ELSE LET fields == RawFields(raw) IN
    IF \E i \in 1..Len(fields) : Len(fields[i]) < 5
    THEN Outcome(store, file, "IndexError", <<>>, FALSE)
    ELSE LET data == [i \in 1..Len(fields) |-> DataTuple(fields[i])] IN
    IF store.status # "open"
    THEN Outcome(store, file, ConnError(store), <<>>, FALSE)
    ELSE IF ~HasTable(store.conn, store.table_name)
    THEN Outcome(store, file, "OperationalError", <<>>, TRUE)
    ELSE LET after == [store EXCEPT
                         !.conn = InsertMany(@, store.table_name, data)]
         IN  Outcome(after,
                     IF FlushWanted(after) THEN write_to_file(after) ELSE file,
                     NoErr, <<>>, TRUE)

(***************************************************************************)
(* search_in_db: the statement each search_type builds, and its            *)
(* execution.                                                              *)
(***************************************************************************)
SearchTypes == {"fulltext", "whole_word", "first_chars"}

\* the operator and the bound parameter of the WHERE clause
SearchSql(word, search_type) ==
    CASE search_type = "fulltext" ->
            [op |-> "LIKE", pat |-> <<"%">> \o word \o <<"%">>]
      [] search_type = "whole_word" ->
            [op |-> "REGEXP", pat |-> <<BSL, "b">> \o word \o <<BSL, "b">>]
      [] search_type = "first_chars" ->
            [op |-> "LIKE", pat |-> word \o <<"%">>]

\* as ExecuteSelect, were the pattern compiled when the statement is built
\* and not when the first row is tested
ExecuteSelectEager(store, file, lang, sql) ==
    IF ~HasTable(store.conn, store.table_name) \/ ColumnOf(lang) = 0
    THEN Outcome(store, file, "OperationalError", <<>>, TRUE)
    ELSE LET rows == TableRows(store.conn, store.table_name)
             col  == ColumnOf(lang)
         IN  IF sql.op = "REGEXP" /\ regexp_raises(sql.pat)
             THEN Outcome(store, file, "OperationalError", <<>>, TRUE)
             ELSE Outcome(store, file, NoErr,
                          SelectSeq(rows,
                             LAMBDA row : IF sql.op = "REGEXP"
                                          THEN regexp(sql.pat, row[col])
                                          ELSE Like(sql.pat, row[col])),
                          TRUE)

\* SELECT * FROM <table> WHERE <lang> <op> ? on an open connection
ExecuteSelect(store, file, lang, sql) ==
    IF ~HasTable(store.conn, store.table_name) \/ ColumnOf(lang) = 0
    THEN Outcome(store, file, "OperationalError", <<>>, TRUE)
    ELSE LET rows == TableRows(store.conn, store.table_name)
             col  == ColumnOf(lang)
         IN  IF sql.op = "REGEXP" /\ rows # <<>> /\ regexp_raises(sql.pat)
             THEN Outcome(store, file, "OperationalError", <<>>, TRUE)
             ELSE Outcome(store, file, NoErr,
                          SelectSeq(rows,
                             LAMBDA row : IF sql.op = "REGEXP"
                                          THEN regexp(sql.pat, row[col])
                                          ELSE Like(sql.pat, row[col])),
                          TRUE)

\* search_in_db with a final else that falls back to the fulltext statement
search_in_db_fallback(store, file, word, lang, search_type) ==
    IF store.status # "open"
    THEN Outcome(store, file, ConnError(store), <<>>, FALSE)
    ELSE ExecuteSelect(store, file, lang,
                       [op |-> "LIKE", pat |-> <<"%">> \o word \o <<"%">>])

search_in_db(store, file, word, lang, search_type) ==
    IF search_type \notin SearchTypes
    THEN Outcome(store, file, "ValueError: Unknown search_type argument.",
                 <<>>, FALSE)
    ELSE IF store.status # "open"
    THEN Outcome(store, file, ConnError(store), <<>>, FALSE)
    ELSE ExecuteSelect(store, file, lang, SearchSql(word, search_type))

close_db(store, file) ==
    IF store.status = "constructed"
    THEN Outcome(store, file, "AttributeError", <<>>, FALSE)
    ELSE Outcome([store EXCEPT !.status = "closed"], file, NoErr, <<>>, FALSE)

(***************************************************************************)
(* State.                                                                  *)
(*   store[f]  the store object on the backing file of flavour f           *)
(*   file[f]   the bytes of that backing file                              *)
(*   last[f]   the last call on the store: its name, its arguments, the    *)
(*             exception it raised, the rows it yielded, whether it        *)
(*             handed a statement to the engine                            *)
(*   fresh[f]  the second store object that the last step constructed on   *)
(*             the same file and initialised (test_with_real_db_file's     *)
(*             re-read of the file), NoFresh when the last step was        *)
(*             another                                                     *)
(*   made[f]   how the store was constructed: the path given, what the     *)
(*             constructor raised, the calls it made on the path           *)
(***************************************************************************)
VARIABLES store, file, last, fresh, made

vars == <<store, file, last, fresh, made>>

\* a store's table as fill_db("edge.txt") fills it
EdgeRows == [i \in 1..Len(RawFields("edge.txt")) |->
                DataTuple(RawFields("edge.txt")[i])]

\* what the backing file holds when the store is constructed: nothing (the
\* test-suite's touched file), a database with another table, or a filled
\* dictionary
InitDbs ==
    { <<>>,
      << [name |-> "test", rows |-> <<>>] >>,
      << [name |-> DefaultTable, rows |-> EdgeRows] >> }

\* the two fixtures of one logical content
FileOf(flavour, db) ==
    LET bytes == IF db = <<>> THEN <<>> ELSE Serialize(db)
    IN  IF flavour = "lzma" THEN LzmaCompress(bytes) ELSE bytes

Call(op, args, out) ==
    [op |-> op, args |-> args, err |-> out.err, results |-> out.results,
     queried |-> out.queried]

NoCall == [op |-> "__init__", args |-> <<>>, err |-> NoErr,
           results |-> <<>>, queried |-> FALSE]

NoFresh == [status |-> "none"]

\* the paths of the test-suite's two fixtures
FixturePath(flavour) ==
    [suffixes |-> IF flavour = "lzma" THEN <<".db", ".lzma">> ELSE <<".db">>,
     exists   |-> TRUE]

\* the two stores are constructed on the two fixtures, or both on one path
\* that is none of them
PathChoices ==
    {[f \in Flavours |-> FixturePath(f)]} \cup
    {[f \in Flavours |-> path] :
        path \in Paths \ {FixturePath(f) : f \in Flavours}}

\* the record of a constructor call
Made(path, out) == [file |-> path, err |-> out.err, io |-> out.io]

\* a path that does not exist has no bytes
Init ==
    \E db \in InitDbs, memory_only \in BOOLEAN, path \in PathChoices :
        LET out == [f \in Flavours |-> SQLiteBackend(path[f], memory_only)]
        IN  /\ \A f \in Flavours : ~path[f].exists => db = <<>>
            /\ store = [f \in Flavours |-> out[f].store]
            /\ file  = [f \in Flavours |->
                          IF path[f].exists THEN FileOf(f, db) ELSE <<>>]
            /\ last  = [f \in Flavours |-> NoCall]
            /\ fresh = [f \in Flavours |-> NoFresh]
            /\ made  = [f \in Flavours |-> Made(path[f], out[f])]

\* the effect of one call, whose outcome on each store is out[f]; there is
\* a store to call when its constructor returned
Effect(op, args, out) ==
    /\ \A f \in Flavours : made[f].err = NoErr
    /\ UNCHANGED made
    /\ store' = [f \in Flavours |-> out[f].store]
    /\ file'  = [f \in Flavours |-> out[f].file]
    /\ last'  = [f \in Flavours |-> Call(op, args, out[f])]
    /\ fresh' = [f \in Flavours |-> NoFresh]

DbInit ==
    Effect("db_init", <<>>, [f \in Flavours |-> db_init(store[f], file[f])])

PrepareDb ==
    Effect("prepare_db", <<>>,
           [f \in Flavours |-> prepare_db(store[f], file[f])])

\* the rows a store's table holds (none without a table)
RowCount(s) ==
    IF HasTable(s.conn, s.table_name)
    THEN Len(TableRows(s.conn, s.table_name)) ELSE 0

FillDb ==
    \E raw \in RawFiles :
        /\ \A f \in Flavours :
              RowCount(store[f]) + Len(RawFields(raw)) <= MaxRows
        /\ Effect("fill_db", <<raw>>,
                  [f \in Flavours |-> fill_db(store[f], file[f], raw)])

\* words, columns and search types of the test-suite's searches, and a
\* column the table does not have
TestWords == {Txt_eng, Txt_english}
Langs == {"eng", "cze", "deu"}
Modes == SearchTypes \cup {"unknown"}

SearchInDb(words) ==
    \E word \in words, lang \in Langs, search_type \in Modes :
        Effect("search_in_db", <<word, lang, search_type>>,
               [f \in Flavours |->
                  search_in_db(store[f], file[f], word, lang, search_type)])

CloseDb ==
    Effect("close_db", <<>>, [f \in Flavours |-> close_db(store[f], file[f])])

\* SQLiteBackend(file_db) on the same path, then db_init() on it
Reopen ==
    /\ \A f \in Flavours : made[f].err = NoErr
    /\ UNCHANGED made
    /\ fresh' = [f \in Flavours |->
                   LET out == db_init(Construct(f, TRUE), file[f])
                   IN  IF out.err = NoErr THEN out.store
                       ELSE [status |-> out.err]]
    /\ UNCHANGED <<store, file, last>>

Next ==
    \/ DbInit
    \/ PrepareDb
    \/ FillDb
    \/ SearchInDb(TestWords)
    \/ CloseDb
    \/ Reopen

Spec == Init /\ [][Next]_vars

(***************************************************************************)
(* The search runs.  search_in_db is a function of the table, the word,    *)
(* the column and the search type: SearchSpec starts from the stores that  *)
(* a script of calls leaves behind and runs one search, with the word      *)
(* drawn from every text over Alphabet up to MaxWordLen characters (and    *)
(* the test-suite's words).  A search changes neither the store nor the    *)
(* file, so one search from each start visits every pair of a store and a  *)
(* query.                                                                  *)
(***************************************************************************)
\* a lower-case letter and its capital, LIKE's two wildcards, the regular
\* expression metacharacters . and (, and a blank
Alphabet == {"e", "E", "_", "%", ".", "(", " "}

RECURSIVE TextsUpTo(_)
TextsUpTo(n) ==
    IF n = 0 THEN {<<>>}
    ELSE LET shorter == TextsUpTo(n - 1)
         IN  shorter \cup {<<c>> \o t : c \in Alphabet, t \in shorter}

Words == TextsUpTo(MaxWordLen) \cup {Txt_test, Txt_eng, Txt_english, Txt_ehm}

\* one call of a script on a store
Apply(call, s, bytes) ==
    CASE call.op = "db_init"    -> db_init(s, bytes)
      [] call.op = "prepare_db" -> prepare_db(s, bytes)
      [] call.op = "fill_db"    -> fill_db(s, bytes, call.args[1])
      [] call.op = "close_db"   -> close_db(s, bytes)

RECURSIVE RunScript(_, _, _, _)
\* the store, the file and the last call after the calls of a script
RunScript(script, s, bytes, lastcall) ==
    IF script = <<>> THEN [store |-> s, file |-> bytes, last |-> lastcall]
    ELSE LET out == Apply(Head(script), s, bytes)
         IN  RunScript(Tail(script), out.store, out.file,
                       Call(Head(script).op, Head(script).args, out))

RECURSIVE FillScripts(_)
\* up to n fill_db calls of the well-formed raw files
FillScripts(n) ==
    IF n = 0 THEN {<<>>}
    ELSE LET shorter == FillScripts(n - 1)
         IN  shorter \cup
             {<<[op |-> "fill_db", args |-> <<raw>>]>> \o t :
                 raw \in {"raw_file.txt", "edge.txt"}, t \in shorter}

\* nothing; or db_init, then prepare_db or not, then fills, then close_db
\* or not
Scripts ==
    {<<>>} \cup
    { <<[op |-> "db_init", args |-> <<>>]>> \o prep \o fills \o close :
        prep  \in {<<>>, <<[op |-> "prepare_db", args |-> <<>>]>>},
        fills \in FillScripts(MaxFills),
        close \in {<<>>, <<[op |-> "close_db", args |-> <<>>]>>} }

InitSearch ==
    \E db \in InitDbs, memory_only \in BOOLEAN, script \in Scripts :
        LET run == [f \in Flavours |->
                      RunScript(script, Construct(f, memory_only),
                                FileOf(f, db), NoCall)]
        IN  /\ \A f \in Flavours : RowCount(run[f].store) <= MaxRows
            /\ store = [f \in Flavours |-> run[f].store]
            /\ file  = [f \in Flavours |-> run[f].file]
            /\ last  = [f \in Flavours |-> run[f].last]
            /\ fresh = [f \in Flavours |-> NoFresh]
            /\ made  = [f \in Flavours |->
                          Made(FixturePath(f),
                               SQLiteBackend(FixturePath(f), memory_only))]

SearchOnce ==
    /\ \A f \in Flavours : last[f].op # "search_in_db"
    /\ SearchInDb(Words)

NextSearch == SearchOnce

SearchSpec == InitSearch /\ [][NextSearch]_vars

(***************************************************************************)
(* Vocabulary of the properties.                                           *)
(***************************************************************************)
\* the table as fill_db("raw_file.txt") fills an empty one
FixtureRows ==
    << <<Txt_test_eng, Txt_test_cze, Txt_note, Txt_special, Txt_author>>,
       <<Txt_eng, Txt_cze, Txt_note, Txt_special, Txt_author>>,
       <<Txt_english, Txt_czech, Txt_note \o <<"s">>, Txt_special \o <<"s">>,
         Txt_author \o <<"s">> >> >>

\* the last call on store f was op and raised nothing
Completed(f, op) == last[f].op = op /\ last[f].err = NoErr

\* this step is a call of op on the stores (Reopen leaves fresh set)
IsCall(f, op) == last'[f].op = op /\ fresh'[f].status = "none"

\* number of tables of db called name
TablesNamed(db, name) == Cardinality({i \in 1..Len(db) : db[i].name = name})

\* the database a new store reads from the bytes of file f
ReadBack(f) == db_init(Construct(f, TRUE), file[f]).store.conn

\* the last call was a search that reached a table with the column searched
Searched(f, search_type) ==
    /\ last[f].op = "search_in_db"
    /\ last[f].args[3] = search_type
    /\ store[f].status = "open"
    /\ HasTable(store[f].conn, store[f].table_name)
    /\ ColumnOf(last[f].args[2]) > 0

SearchedWord(f) == last[f].args[1]

\* the rows of the table whose searched column satisfies Test
Matching(f, Test(_, _)) ==
    SelectSeq(TableRows(store[f].conn, store[f].table_name),
              LAMBDA row : Test(SearchedWord(f), row[ColumnOf(last[f].args[2])]))

\* word occurs in s at offset i (0-based), ASCII case ignored
OccursAt(word, s, i) ==
    /\ i + Len(word) <= Len(s)
    /\ \A k \in 1..Len(word) : Lower(s[i+k]) = Lower(word[k])

Contains(word, s) == \E i \in 0..Len(s) : OccursAt(word, s, i)

StartsWith(word, s) == OccursAt(word, s, 0)

\* word occurs in s with a word boundary on either side
WholeWord(word, s) ==
    \E i \in 0..Len(s) :
        /\ OccursAt(word, s, i)
        /\ AtBoundary(s, i + 1)
        /\ AtBoundary(s, i + 1 + Len(word))

\* as WholeWord, a "." of word standing for any one character
WholeWordDot(word, s) ==
    \E i \in 0..Len(s) :
        /\ i + Len(word) <= Len(s)
        /\ \A k \in 1..Len(word) :
              IF word[k] = "." THEN s[i+k] # NL
              ELSE Lower(s[i+k]) = Lower(word[k])
        /\ AtBoundary(s, i + 1)
        /\ AtBoundary(s, i + 1 + Len(word))

\* word is no regular expression: a group is opened and never closed
Malformed(word) == \E k \in 1..Len(word) : word[k] = "("

(***************************************************************************)
(* Properties of Spec.                                                     *)
(***************************************************************************)
\* C1: round trip.  A new store constructed on the file of a store that
\* was created with memory_only=False and initialised holds, after its
\* db_init, exactly the database of that store: same tables, same rows,
\* same order, after any number of prepare_db and fill_db calls.
C1_RoundTrip ==
    \A f \in Flavours :
        (fresh[f].status # "none" /\ ~store[f].memory_only
            /\ store[f].status # "constructed")
        => (fresh[f].status = "open" /\ fresh[f].conn = store[f].conn)

\* a store with memory_only=False was prepared and filled from
\* raw_file.txt, and a new store has read the file
C1_Witness ==
    \A f \in Flavours :
        /\ ~store[f].memory_only
        /\ Completed(f, "fill_db") /\ last[f].args = <<"raw_file.txt">>
        /\ fresh[f].status = "open"
        /\ HasTable(fresh[f].conn, DefaultTable)
        /\ TableRows(fresh[f].conn, DefaultTable) = FixtureRows

\* C2: with memory_only=True no step changes the bytes of the backing
\* file, so they stay what they were when the store was constructed.
C2_MemoryOnlyKeepsFile ==
    [][\A f \in Flavours : store[f].memory_only => file'[f] = file[f]]_vars

\* a memory-only store has been filled, and its file does not hold its table
C2_Witness ==
    \A f \in Flavours :
        /\ store[f].memory_only
        /\ Completed(f, "fill_db")
        /\ RowCount(store[f]) > 0
        /\ ReadBack(f) # store[f].conn

\* C3: with memory_only=False, when prepare_db or fill_db has completed
\* the backing file holds exactly the in-memory database; prepare_db on an
\* empty file and fill_db of a raw file that has lines change the file.
C3_FileReflectsMemory ==
    /\ [](\A f \in Flavours :
            (~store[f].memory_only
                /\ (Completed(f, "prepare_db") \/ Completed(f, "fill_db")))
            => ReadBack(f) = store[f].conn)
    /\ [][\A f \in Flavours :
            (~store[f].memory_only /\ IsCall(f, "prepare_db")
                /\ last'[f].err = NoErr /\ ReadImage(store[f], file[f]) = <<>>)
            => file'[f] # file[f]]_vars
    /\ [][\A f \in Flavours :
            (~store[f].memory_only /\ IsCall(f, "fill_db")
                /\ last'[f].err = NoErr
                /\ RawFields(last'[f].args[1]) # <<>>)
            => file'[f] # file[f]]_vars

\* a store with memory_only=False has just been filled from raw_file.txt
C3_Witness ==
    \A f \in Flavours :
        /\ ~store[f].memory_only
        /\ Completed(f, "fill_db") /\ last[f].args = <<"raw_file.txt">>
        /\ TableRows(store[f].conn, DefaultTable) = FixtureRows

\* C4: prepare_db on an initialised store raises nothing and leaves
\* exactly one table called table_name; when the table was there already
\* (a second or later call), it leaves the whole database, rows included,
\* as it was.
C4_PrepareIdempotent ==
    [][\A f \in Flavours :
         (IsCall(f, "prepare_db") /\ store[f].status = "open")
         => /\ last'[f].err = NoErr
            /\ TablesNamed(store'[f].conn, store[f].table_name) = 1
            /\ (HasTable(store[f].conn, store[f].table_name)
                  => store'[f].conn = store[f].conn)]_vars

\* prepare_db has run on a table that an earlier prepare_db created and
\* fill_db filled
C4_Witness ==
    \A f \in Flavours :
        /\ Completed(f, "prepare_db")
        /\ HasTable(store[f].conn, DefaultTable)
        /\ TableRows(store[f].conn, DefaultTable) = FixtureRows

\* C10: compression transparency.  The store on the compressed file and
\* the store on the uncompressed file, started from the same content and
\* given the same calls, hold the same database, are in the same state,
\* got the same rows and the same exception from the last call, and a new
\* store reads the same database from either file.
C10_CompressionTransparent ==
    /\ store["db"].conn = store["lzma"].conn
    /\ store["db"].status = store["lzma"].status
    /\ last["db"] = last["lzma"]
    /\ fresh["db"].status = fresh["lzma"].status
    /\ fresh["db"].status = "open" => fresh["db"].conn = fresh["lzma"].conn

\* both files were written after a fill and read again by new stores
C10_Witness ==
    /\ \A f \in Flavours :
          /\ ~store[f].memory_only
          /\ fresh[f].status = "open"
          /\ HasTable(fresh[f].conn, DefaultTable)
          /\ TableRows(fresh[f].conn, DefaultTable) = FixtureRows
    /\ file["db"] # file["lzma"]

(***************************************************************************)
(* Properties of SearchSpec.                                               *)
(***************************************************************************)
\* C5 as stated: a whole_word search raises nothing and yields exactly the
\* rows whose column holds the literal word between word boundaries,
\* ASCII case ignored.
C5_WholeWordLiteral ==
    \A f \in Flavours :
        Searched(f, "whole_word")
        => (last[f].err = NoErr /\ last[f].results = Matching(f, WholeWord))

\* C5 amended: a whole_word search reads word as a regular expression.
\* It yields exactly the rows whose column holds a match of word between
\* word boundaries, ASCII case ignored, a "." of word standing for any one
\* character; a word that is no regular expression makes the search raise
\* and yield nothing when the table has rows, and yield nothing without
\* raising when it has none.  A word without metacharacters is matched as
\* the literal word, and on the fixture rows "english" in column eng
\* yields exactly the row "english".
C5_WholeWordPattern ==
    \A f \in Flavours :
        Searched(f, "whole_word")
        => LET rows == TableRows(store[f].conn, store[f].table_name) IN
           /\ (Malformed(SearchedWord(f)) /\ rows # <<>>)
                => (last[f].err = "OperationalError" /\ last[f].results = <<>>)
           /\ ~(Malformed(SearchedWord(f)) /\ rows # <<>>)
                => /\ last[f].err = NoErr
                   /\ last[f].results = Matching(f, WholeWordDot)
           /\ (\A k \in 1..Len(SearchedWord(f)) :
                    SearchedWord(f)[k] \notin {".", "("})
                => last[f].results = Matching(f, WholeWord)
           /\ (rows = FixtureRows /\ SearchedWord(f) = Txt_english
                    /\ last[f].args[2] = "eng")
                => last[f].results = <<FixtureRows[3]>>

\* a whole_word search of a word with a "." has yielded a row that does
\* not hold the word itself
C5_Witness ==
    \A f \in Flavours :
        /\ Searched(f, "whole_word")
        /\ \E k \in 1..Len(SearchedWord(f)) : SearchedWord(f)[k] = "."
        /\ last[f].results # <<>>
        /\ last[f].results # Matching(f, WholeWord)

\* C6 as stated: a fulltext search raises nothing and yields, in table
\* order, exactly the rows whose column contains word as a substring (here
\* even with ASCII case ignored, as LIKE compares).
C6_FulltextSubstring ==
    \A f \in Flavours :
        Searched(f, "fulltext")
        => (last[f].err = NoErr /\ last[f].results = Matching(f, Contains))

\* C7 as stated: a first_chars search raises nothing and yields, in table
\* order, exactly the rows whose column starts with word (here even with
\* ASCII case ignored, as LIKE compares); on the fixture rows "eng" in
\* column eng yields "eng" and "english" and not "test_eng".
C7_FirstCharsPrefix ==
    \A f \in Flavours :
        Searched(f, "first_chars")
        => /\ last[f].err = NoErr
           /\ last[f].results = Matching(f, StartsWith)
           /\ (TableRows(store[f].conn, store[f].table_name) = FixtureRows
                  /\ SearchedWord(f) = Txt_eng /\ last[f].args[2] = "eng")
                => last[f].results = <<FixtureRows[2], FixtureRows[3]>>

\* C8: a search with a search type other than the three known ones raises
\* ValueError("Unknown search_type argument.") before a statement reaches
\* the engine, yields no row, and leaves the store and the backing file as
\* they were, whatever the word, the column and the state of the store.
C8_UnknownSearchType ==
    /\ [](\A f \in Flavours :
            (last[f].op = "search_in_db" /\ last[f].args[3] \notin SearchTypes)
            => /\ last[f].err = "ValueError: Unknown search_type argument."
               /\ ~last[f].queried
               /\ last[f].results = <<>>)
    /\ [][\A f \in Flavours :
            (IsCall(f, "search_in_db") /\ last'[f].args[3] \notin SearchTypes)
            => (store'[f] = store[f] /\ file'[f] = file[f])]_vars

\* an unknown search type was given on a column the table has, with a word
\* that a fulltext search would have found
C8_Witness ==
    \A f \in Flavours :
        /\ Searched(f, "unknown")
        /\ last[f].args[2] = "eng"
        /\ Matching(f, Contains) # <<>>

\* C9: on an initialised store whose table is empty, a search of any word
\* with any of the three search types, in a column the table has, yields
\* no row and raises nothing.
C9_EmptyTableSearch ==
    \A f \in Flavours :
        (/\ \E search_type \in SearchTypes : Searched(f, search_type)
         /\ TableRows(store[f].conn, store[f].table_name) = <<>>)
        => (last[f].err = NoErr /\ last[f].results = <<>>)

\* the empty table was searched for a word that is no regular expression
C9_Witness ==
    \A f \in Flavours :
        /\ Searched(f, "whole_word")
        /\ TableRows(store[f].conn, store[f].table_name) = <<>>
        /\ Malformed(SearchedWord(f))
        /\ last[f].err = NoErr


\* C11: fill_db with a raw file that does not exist raises
\* FileNotFoundError before it touches the table: no statement reaches the
\* engine, the store (its in-memory table included) is as it was and, with
\* memory_only=False as with memory_only=True, so are the bytes of the
\* backing file.
C11_MissingRawFile ==
    /\ [](\A f \in Flavours :
            (last[f].op = "fill_db" /\ last[f].args[1] \notin RawExisting)
            => (last[f].err = "FileNotFoundError" /\ ~last[f].queried))
    /\ [][\A f \in Flavours :
            (IsCall(f, "fill_db") /\ last'[f].args[1] \notin RawExisting)
            => (store'[f] = store[f] /\ file'[f] = file[f])]_vars

\* a store with memory_only=False that holds a table with rows, its file
\* flushed, was asked to fill from a raw file that does not exist
C11_Witness ==
    \A f \in Flavours :
        /\ last[f].op = "fill_db" /\ last[f].args = <<"missing.txt">>
        /\ ~store[f].memory_only
        /\ store[f].status = "open"
        /\ RowCount(store[f]) > 0
        /\ ReadBack(f) = store[f].conn


\* C12 as stated: a path whose suffixes are neither [".db"] nor
\* [".db", ".lzma"] makes the constructor raise MimeTypeMismatch, whether
\* or not the path exists, and before any call on the path.
C12_SuffixBeforeAnyIO ==
    \A f \in Flavours :
        made[f].file.suffixes \notin {<<".db">>, <<".db", ".lzma">>}
        => (made[f].err = "MimeTypeMismatch" /\ made[f].io = <<>>)

\* C12: the constructor asks first whether the path exists, and exits the
\* process when it does not, whatever the suffixes; on a path that exists
\* and whose suffixes are neither [".db"] nor [".db", ".lzma"] it raises
\* MimeTypeMismatch, having made that one call on the path and no other,
\* and there is no store; on a path that exists with one of the two suffix
\* lists it returns a store.
C12_ExistsThenSuffixes ==
    \A f \in Flavours :
        LET bad == made[f].file.suffixes \notin {<<".db">>, <<".db", ".lzma">>}
        IN  /\ made[f].io = <<"exists">>
            /\ ~made[f].file.exists => made[f].err = "SystemExit"
            /\ (made[f].file.exists /\ bad)
               => (made[f].err = "MimeTypeMismatch" /\ store[f].status = "none")
            /\ (made[f].file.exists /\ ~bad)
               => (made[f].err = NoErr /\ store[f].status # "none")

\* a store was asked for on a path that exists and ends in .lzma without a
\* .db before it
C12_Witness ==
    \A f \in Flavours :
        /\ made[f].file = [suffixes |-> <<".txt", ".lzma">>, exists |-> TRUE]
        /\ made[f].err = "MimeTypeMismatch"


\* the rows that the lines of each well-formed raw file stand for
ExpectedRows(raw) ==
    CASE raw = "raw_file.txt" -> FixtureRows
      [] raw = "edge.txt" ->
            << << <<"E", "n">>, <<"e", " ", "n">>, <<>>, <<"%">>, <<"a">> >>,
               << <<"n", "_", "e">>, <<"%", "e">>, <<"n">>, <<>>, <<>> >> >>
      [] raw = "empty.txt" -> <<>>

\* the lines of a text: one for each newline, one more for what follows the
\* last newline
LineCount(text) ==
    Cardinality({i \in 1..Len(text) : text[i] = NL})
    + (IF text # <<>> /\ text[Len(text)] # NL THEN 1 ELSE 0)

\* C13: a fill_db that raises nothing leaves in the table the rows it held,
\* in their order, followed by one row for each line of the raw file, in
\* file order, each row the first five tab-separated fields of its line
\* with the newline taken off the fifth; no row is dropped, none is left
\* out for being there already, so each fill adds the file's line count to
\* the table's length.  No other table changes.
C13_FillAppends ==
    [][\A f \in Flavours :
         (IsCall(f, "fill_db") /\ last'[f].err = NoErr)
         => LET raw == last'[f].args[1]
                 t   == store[f].table_name
             IN  /\ HasTable(store[f].conn, t)
                 /\ TableRows(store'[f].conn, t)
                      = TableRows(store[f].conn, t) \o ExpectedRows(raw)
                 /\ Len(TableRows(store'[f].conn, t))
                      = Len(TableRows(store[f].conn, t))
                        + LineCount(RawText(raw))
                 /\ Len(store'[f].conn) = Len(store[f].conn)
                 /\ \A i \in 1..Len(store[f].conn) :
                        store[f].conn[i].name # t
                        => store'[f].conn[i] = store[f].conn[i]]_vars

\* the table holds the rows of edge.txt twice after a fill from edge.txt
C13_Witness ==
    \A f \in Flavours :
        /\ Completed(f, "fill_db") /\ last[f].args = <<"edge.txt">>
        /\ HasTable(store[f].conn, DefaultTable)
        /\ TableRows(store[f].conn, DefaultTable)
             = ExpectedRows("edge.txt") \o ExpectedRows("edge.txt")


\* some line of the raw file has fewer than four tabs, so fewer than five
\* tab-separated fields
HasShortLine(raw) ==
    \E i \in 1..Len(RawFields(raw)) : Len(RawFields(raw)[i]) < 5

\* C14: when a line of the raw file has fewer than five tab-separated
\* fields, fill_db raises IndexError and has inserted no row, not even
\* those of the well-formed lines before that line: no statement reached
\* the engine, nothing was committed or flushed, and the store with its
\* table and the bytes of the backing file are what they were before the
\* call.
C14_MalformedLine ==
    /\ [](\A f \in Flavours :
            (/\ last[f].op = "fill_db"
             /\ last[f].args[1] \in RawExisting
             /\ HasShortLine(last[f].args[1]))
            => (last[f].err = "IndexError" /\ ~last[f].queried))
    /\ [][\A f \in Flavours :
            (/\ IsCall(f, "fill_db")
             /\ last'[f].args[1] \in RawExisting
             /\ HasShortLine(last'[f].args[1]))
            => (store'[f] = store[f] /\ file'[f] = file[f])]_vars

\* a store with memory_only=False that holds a table, its file flushed, was
\* asked to fill from a raw file whose second line has four fields
C14_Witness ==
    \A f \in Flavours :
        /\ last[f].op = "fill_db" /\ last[f].args = <<"short.txt">>
        /\ Len(RawFields("short.txt")[1]) = 5
        /\ Len(RawFields("short.txt")[2]) = 4
        /\ ~store[f].memory_only
        /\ store[f].status = "open"
        /\ HasTable(store[f].conn, DefaultTable)
        /\ ReadBack(f) = store[f].conn

=============================================================================
